---- MODULE Spec2Model ----
(***************************************************************************)
(* Model of BAC0/core/io/Read.py: ReadProperty.read, readMultiple,         *)
(* _split_the_read_request, build_rp_request, build_rpm_request and        *)
(* find_reason.  Each calling context runs one blocking call; the BACnet   *)
(* stack completes the pending IOCB asynchronously.  A step of a caller    *)
(* runs from one blocking point (iocb.wait) to the next one.               *)
(***************************************************************************)
EXTENDS Integers, Sequences, FiniteSets, TLC

VARIABLES started, devLen, pc, op, args, frames, iocb, log, outcome

vars == <<started, devLen, pc, op, args, frames, iocb, log, outcome>>

----------------------------------------------------------------------------
(* Bounds of the model *)

\* largest number of elements of the device's objectList
MaxN == 2
\* deepest nesting of _split_the_read_request activations
MaxDepth == 2

\* calling contexts; Spec lets the first one call, the other stays "off"
Callers == {1, 2}

\* propertyArrayIndex = None
NoIndex == -1

----------------------------------------------------------------------------
(* Python values handed to the caller *)

V(t, n) == [t |-> t, n |-> n, items |-> <<>>]
VList(s) == [t |-> "list", n |-> 0, items |-> s]
PyNone == V("None", 0)
EmptyStr == V("str", 0)
\* placeholders of the history log
Pending == V("pending", 0)
Raised(e) == V(e, -1)

Return(v) == [kind |-> "return", val |-> v, err |-> ""]
Raise(e) == [kind |-> "raise", val |-> PyNone, err |-> e]
NoOutcome == [kind |-> "none", val |-> PyNone, err |-> ""]

----------------------------------------------------------------------------
(* Text of the command tokens: args is a string, split on white space *)

Chars(tok) ==
  CASE tok = "2:5" -> <<"2", ":", "5">>
    [] tok = "analogInput" -> <<"a","n","a","l","o","g","I","n","p","u","t">>
    [] tok = "device" -> <<"d","e","v","i","c","e">>
    [] tok = "program" -> <<"p","r","o","g","r","a","m">>
    [] tok = "bogus" -> <<"b","o","g","u","s">>
    [] tok = "0" -> <<"0">>
    [] tok = "1" -> <<"1">>
    [] tok = "2" -> <<"2">>
    [] tok = "8" -> <<"8">>
    [] tok = "76" -> <<"7","6">>
    [] tok = "presentValue" -> <<"p","r","e","s","e","n","t","V","a","l","u","e">>
    [] tok = "units" -> <<"u","n","i","t","s">>
    [] tok = "description" -> <<"d","e","s","c","r","i","p","t","i","o","n">>
    [] tok = "descriptionOfHalt" ->
         <<"d","e","s","c","r","i","p","t","i","o","n","O","f","H","a","l","t">>
    [] tok = "objectList" -> <<"o","b","j","e","c","t","L","i","s","t">>
    [] tok = "all" -> <<"a","l","l">>
    [] OTHER -> <<"?">>

RECURSIVE Join(_)
\* the string the caller passed: the tokens separated by one blank
Join(toks) ==
  IF toks = <<>> THEN <<>>
  ELSE IF Len(toks) = 1 THEN Chars(toks[1])
  ELSE Chars(toks[1]) \o <<" ">> \o Join(Tail(toks))

\* Python's  needle in hay  on strings
Contains(hay, needle) ==
  \E k \in 0..(Len(hay) - Len(needle)) :
     SubSeq(hay, k + 1, k + Len(needle)) = needle

\* str.isdigit() and int() on the tokens of the vocabulary
DigitTokens == {"0", "1", "2", "8", "76"}
isdigit(tok) == tok \in DigitTokens
IntOf(tok) ==
  CASE tok = "0" -> 0 [] tok = "1" -> 1 [] tok = "2" -> 2
    [] tok = "8" -> 8 [] tok = "76" -> 76 [] OTHER -> -1

----------------------------------------------------------------------------
(* The bacpypes registry, reduced to three object types *)

NoType == [name |-> "", array |-> FALSE, subtype |-> ""]
DT(name) == [name |-> name, array |-> FALSE, subtype |-> ""]
ArrayOf(sub) == [name |-> "ArrayOf", array |-> TRUE, subtype |-> sub]

\* object type as build_*_request hands it to the registry: a name stays a
\* name, a digit string becomes the integer type code (0 analogInput, 8 device)
ObjTypeOf(tok) ==
  IF isdigit(tok)
  THEN (CASE tok = "0" -> "analogInput" [] tok = "8" -> "device" [] OTHER -> "unknownCode")
  ELSE tok

get_object_class(name) == name \in {"analogInput", "device", "program"}

\* property identifier: a digit string becomes the integer code (76 objectList)
PropOf(tok) ==
  IF isdigit(tok)
  THEN (CASE tok = "76" -> "objectList" [] OTHER -> "unknownCode")
  ELSE tok

PropertyIdentifierEnumerations ==
  {"presentValue", "units", "description", "descriptionOfHalt", "objectList",
   "all", "required", "optional"}

get_datatype(obj, prop) ==
  CASE obj = "analogInput" /\ prop = "presentValue" -> DT("Real")
    [] obj = "analogInput" /\ prop = "units" -> DT("EngineeringUnits")
    [] obj = "program" /\ prop = "descriptionOfHalt" -> DT("CharacterString")
    [] obj \in {"analogInput", "device", "program"} /\ prop = "description" ->
         DT("CharacterString")
    [] obj = "device" /\ prop = "objectList" -> ArrayOf("ObjectIdentifier")
    [] OTHER -> NoType

----------------------------------------------------------------------------
(* Requests *)

Req(kind, obj, inst, prop, idx, specs) ==
  [kind |-> kind, obj |-> obj, inst |-> inst, prop |-> prop, idx |-> idx,
   specs |-> specs]
NoReq == Req("none", "", 0, "", NoIndex, <<>>)

Built(req) == [ok |-> TRUE, err |-> "", req |-> req]
BuildError(e) == [ok |-> FALSE, err |-> e, req |-> NoReq]

\* the exceptions of the request builders, with their messages
UnpackError == "ValueError: not enough values to unpack"
IntError == "ValueError: invalid literal for int()"
UnknownObjectType == "ValueError: unknown object type"
InvalidProperty == "ValueError: invalid property for object type"
NoProperty == "ValueError: provide at least one property"
NoAccessSpec == "RuntimeError: at least one read access specification required"
ListIndexError == "IndexError: list index out of range"
FormatIndexError == "IndexError: Replacement index 1 out of range"

\* the class of an exception
ErrorClass(e) ==
  CASE e \in {UnpackError, IntError, UnknownObjectType, InvalidProperty, NoProperty}
         -> "ValueError"
    [] e = NoAccessSpec -> "RuntimeError"
    [] e \in {ListIndexError, FormatIndexError} -> "IndexError"
    [] OTHER -> e

\* ReadProperty.build_rp_request
build_rp_request(a, arr_index) ==
  IF Len(a) < 4 THEN BuildError(UnpackError)
  ELSE IF ~isdigit(a[2]) /\ ~get_object_class(a[2]) THEN BuildError(UnknownObjectType)
  ELSE IF ~isdigit(a[3]) THEN BuildError(IntError)
  ELSE IF get_datatype(ObjTypeOf(a[2]), PropOf(a[4])) = NoType
       THEN BuildError(InvalidProperty)
  ELSE IF Len(a) = 5 /\ ~isdigit(a[5]) THEN BuildError(IntError)
  ELSE Built(Req("rp", ObjTypeOf(a[2]), IntOf(a[3]), PropOf(a[4]),
                 IF Len(a) = 5 THEN IntOf(a[5]) ELSE arr_index, <<>>))

Ref(prop, idx) == [prop |-> prop, idx |-> idx]
ParseState(i, out, err) == [i |-> i, out |-> out, err |-> err]

RECURSIVE PropRefs(_, _, _, _)
\* inner while loop of build_rpm_request: the property references of one
\* object group, from token i on (tokens are numbered from 1 here)
PropRefs(a, i, obj, refs) ==
  IF i > Len(a) \/ a[i] \notin PropertyIdentifierEnumerations
  THEN ParseState(i, refs, "")
  ELSE IF a[i] \notin {"all", "required", "optional"}
          /\ get_datatype(obj, a[i]) = NoType
       \* the message is formatted with one tuple for two fields
       THEN ParseState(i, refs, FormatIndexError)
  ELSE IF i + 1 <= Len(a) /\ isdigit(a[i + 1])
       THEN PropRefs(a, i + 2, obj, Append(refs, Ref(a[i], IntOf(a[i + 1]))))
       ELSE PropRefs(a, i + 1, obj, Append(refs, Ref(a[i], NoIndex)))

RECURSIVE AccessSpecs(_, _, _)
\* outer while loop of build_rpm_request
AccessSpecs(a, i, specs) ==
  IF i > Len(a) THEN ParseState(i, specs, "")
  ELSE IF ~isdigit(a[i]) /\ ~get_object_class(a[i])
       THEN ParseState(i, specs, UnknownObjectType)
  ELSE IF i + 1 > Len(a) THEN ParseState(i, specs, ListIndexError)
  ELSE IF ~isdigit(a[i + 1]) THEN ParseState(i, specs, IntError)
  ELSE LET p == PropRefs(a, i + 2, ObjTypeOf(a[i]), <<>>) IN
       IF p.err # "" THEN ParseState(p.i, specs, p.err)
       ELSE IF p.out = <<>> THEN ParseState(p.i, specs, NoProperty)
       ELSE AccessSpecs(a, p.i,
              Append(specs, [obj |-> ObjTypeOf(a[i]), inst |-> IntOf(a[i + 1]),
                             refs |-> p.out]))

\* ReadProperty.build_rpm_request
build_rpm_request(a) ==
  IF a = <<>> THEN BuildError(ListIndexError)
  ELSE LET p == AccessSpecs(a, 2, <<>>) IN
       IF p.err # "" THEN BuildError(p.err)
       ELSE IF p.out = <<>> THEN BuildError(NoAccessSpec)
       ELSE Built(Req("rpm", "", 0, "", NoIndex, p.out))

----------------------------------------------------------------------------
(* Failure signals and find_reason *)

\* RejectReason.enumerations and AbortReason.enumerations, by numeric code
RejectReasonName(code) ==
  CASE code = 0 -> "other" [] code = 4 -> "invalidTag"
    [] code = 9 -> "unrecognizedService" [] OTHER -> ""
AbortReasonName(code) ==
  CASE code = 0 -> "other" [] code = 4 -> "segmentationNotSupported"
    [] code = 9 -> "outOfResources" [] OTHER -> ""

Named(name) == [ok |-> TRUE, name |-> name, code |-> -1]
RawCode(code) == [ok |-> TRUE, name |-> "", code |-> code]
\* find_reason itself raises
NoReason(e) == [ok |-> FALSE, name |-> e, code |-> -1]

\* find_reason(apdu)
find_reason(apdu) ==
  IF apdu.type = "reject"
  THEN (IF RejectReasonName(apdu.code) # "" THEN Named(RejectReasonName(apdu.code))
        ELSE RawCode(apdu.code))
  ELSE IF apdu.type = "abort"
  THEN (IF AbortReasonName(apdu.code) # "" THEN Named(AbortReasonName(apdu.code))
        ELSE RawCode(apdu.code))
  ELSE IF apdu.errCode # "" /\ apdu.errClass # "" THEN Named(apdu.errCode)
  \* the warning of this branch refers to self, which a module function
  \* does not have
  ELSE NoReason("NameError")

\* reason == '<name>' in the callers of find_reason
ReasonIs(r, name) == r.ok /\ r.name = name

----------------------------------------------------------------------------
(* What the stack can put into a pending IOCB *)

Sig(type, code, errClass, errCode, obj, prop, idx, raw, results) ==
  [type |-> type, code |-> code, errClass |-> errClass, errCode |-> errCode,
   obj |-> obj, prop |-> prop, idx |-> idx, raw |-> raw, results |-> results]
NoSig == Sig("none", 0, "", "", "", "", NoIndex, PyNone, <<>>)

Reject(code) == Sig("reject", code, "", "", "", "", NoIndex, PyNone, <<>>)
Abort(code) == Sig("abort", code, "", "", "", "", NoIndex, PyNone, <<>>)
Error(class, code) == Sig("error", 0, class, code, "", "", NoIndex, PyNone, <<>>)
\* a response that is no ReadPropertyACK / ReadPropertyMultipleACK
NotAck == Sig("notAck", 0, "", "", "", "", NoIndex, PyNone, <<>>)
Ack(obj, prop, idx, raw) == Sig("ack", 0, "", "", obj, prop, idx, raw, <<>>)
AckMultiple(results) == Sig("ack", 0, "", "", "", "", NoIndex, PyNone, results)

\* element idx of the device's objectList
ElemAt(idx) == 10 + idx

\* the encoded values a device answers a (obj, prop, idx) read with: the
\* element count at index 0 of an array, the element at an index up to the
\* count, the whole value without index; nothing for any other index
RawFor(obj, prop, idx) ==
  LET d == get_datatype(obj, prop) IN
  IF d = NoType THEN {}
  ELSE IF d.array
  THEN (IF idx = NoIndex
        THEN {[t |-> d.name, n |-> 0,
               items |-> [k \in 1..devLen |-> V(d.subtype, ElemAt(k))]]}
        ELSE IF idx = 0 THEN {V("Unsigned", devLen)}
        ELSE IF idx <= devLen THEN {V(d.subtype, ElemAt(idx))}
        ELSE {})
  ELSE (IF idx = NoIndex THEN {V(d.name, 7)} ELSE {})

\* the failure signals of the model: rejects, aborts, application errors
\* and a signal that carries neither
Failures(depth) ==
  {Reject(4), Reject(9), Abort(99), Error("property", "unknownProperty"),
   Error("object", "unknownObject"), Error("", "")}
  \cup (IF depth < MaxDepth THEN {Abort(4)} ELSE {})

\* Any.cast_out(klass): decodes the value as klass
cast_out(raw, klass) ==
  IF raw.t # klass THEN [ok |-> FALSE, val |-> PyNone]
  ELSE IF raw.items # <<>> \/ klass = "ArrayOf"
       THEN [ok |-> TRUE, val |-> VList(raw.items)]
  ELSE [ok |-> TRUE, val |-> V(klass, raw.n)]

----------------------------------------------------------------------------
(* ReadProperty.read after iocb.wait() *)

Split == [kind |-> "split", val |-> PyNone, err |-> ""]

\* the class the value of a ReadPropertyACK is cast to
ReadCastTarget(datatype, propertyArrayIndex) ==
  IF datatype.array /\ propertyArrayIndex # NoIndex
  THEN (IF propertyArrayIndex = 0 THEN "Unsigned" ELSE datatype.subtype)
  ELSE datatype.name

\* 'description' in args
DescriptionInArgs(a) == Contains(Join(a), Chars("description"))

\* the successful-response branch of read
ReadResponse(apdu) ==
  IF apdu.type # "ack" THEN Raise("IndexError")
  ELSE LET datatype == get_datatype(apdu.obj, apdu.prop) IN
       IF datatype = NoType THEN Raise("TypeError")
       ELSE LET c == cast_out(apdu.raw, ReadCastTarget(datatype, apdu.idx)) IN
            IF c.ok THEN Return(c.val) ELSE Raise("DecodingError")

\* the error branch of read
ReadError(a, apdu) ==
  LET reason == find_reason(apdu) IN
  IF ~reason.ok THEN Raise(reason.name)
  ELSE IF ReasonIs(reason, "segmentationNotSupported") THEN Split
  ELSE IF ReasonIs(reason, "unknownProperty")
       THEN (IF DescriptionInArgs(a) THEN Return(EmptyStr)
             ELSE Raise("UnknownPropertyError"))
  ELSE IF ReasonIs(reason, "unknownObject") THEN Raise("UnknownObjectError")
  ELSE Raise("NoResponseFromController")

ReadInterp(a, apdu) ==
  IF apdu.type \in {"ack", "notAck"} THEN ReadResponse(apdu) ELSE ReadError(a, apdu)

----------------------------------------------------------------------------
(* ReadProperty._split_the_read_request and the calls it nests *)

\* no further self.read(...) to enter
NoCall == -2

\* one activation of _split_the_read_request: at is the place in the log of
\* the read call that entered it
NewFrame(at) == [phase |-> "probe", n |-> 0, i |-> 0, objlist |-> <<>>, at |-> at]

\* history of the read calls of one public call: arr is the arr_index
\* argument, idx the propertyArrayIndex of the request it submitted, parent
\* the read call whose fallback made it, ret what it returned
LogEntry(role, arr, idx, parent) ==
  [role |-> role, arr |-> arr, idx |-> idx, parent |-> parent,
   sig |-> NoSig, ret |-> Pending]

Step(fr, lg, out, next) == [frames |-> fr, log |-> lg, outcome |-> out, next |-> next]

\* the fallback keeps the exception to itself and hands back an empty list
Unwind_swallow(lg, e) ==
  Step(<<>>,
       [k \in DOMAIN lg |->
          IF lg[k].ret = Pending THEN [lg[k] EXCEPT !.ret = Raised(e)] ELSE lg[k]],
       IF Len(lg) > 1 THEN Return(VList(<<>>)) ELSE Raise(e), NoCall)

\* an exception leaves every active read and _split_the_read_request: none
\* of them has a handler for it
Unwind(lg, e) ==
  Step(<<>>,
       [k \in DOMAIN lg |->
          IF lg[k].ret = Pending THEN [lg[k] EXCEPT !.ret = Raised(e)] ELSE lg[k]],
       Raise(e), NoCall)

\* the new value goes to the front of the list
AppendRead_front(objlist, value) == <<value>> \o objlist

\* objlist.append(self.read(args, arr_index=i))
AppendRead(objlist, value) == Append(objlist, value)

\* the count of index - 1: range(1, nmbr_obj)
MoreIndexes_short(i, nmbr_obj) == i + 1 < nmbr_obj

\* for i in range(1, nmbr_obj+1): is there an index after i
MoreIndexes(i, nmbr_obj) == i + 1 < nmbr_obj + 1

RECURSIVE ReturnTo(_, _, _, _)
\* the read call at place pos of the log returns value v to its caller: the
\* public caller, or the activation of _split_the_read_request on top of fr
ReturnTo(fr, lg, v, pos) ==
  LET lg1 == [lg EXCEPT ![pos].ret = v] IN
  IF fr = <<>> THEN Step(<<>>, lg1, Return(v), NoCall)
  ELSE LET top == fr[Len(fr)]
           rest == SubSeq(fr, 1, Len(fr) - 1) IN
       IF top.phase = "probe"
       THEN (IF v.t # "Unsigned" THEN Unwind(lg1, "TypeError")
             ELSE IF ~MoreIndexes(0, v.n) THEN ReturnTo(rest, lg1, VList(<<>>), top.at)
             ELSE Step(Append(rest, [top EXCEPT !.phase = "elem", !.n = v.n, !.i = 1]),
                       lg1, NoOutcome, 1))
       ELSE LET objlist == AppendRead(top.objlist, v) IN
            IF ~MoreIndexes(top.i, top.n)
            THEN ReturnTo(rest, lg1, VList(objlist), top.at)
            ELSE Step(Append(rest, [top EXCEPT !.i = top.i + 1, !.objlist = objlist]),
                      lg1, NoOutcome, top.i + 1)

----------------------------------------------------------------------------
(* Steps of a calling context *)

NoIocb == [req |-> NoReq, state |-> "none", sig |-> NoSig]

\* the call ends: it returns or raises
Finish(c, st) ==
  /\ pc' = [pc EXCEPT ![c] = "done"]
  /\ outcome' = [outcome EXCEPT ![c] = st.outcome]
  /\ frames' = [frames EXCEPT ![c] = st.frames]
  /\ log' = [log EXCEPT ![c] = st.log]
  /\ UNCHANGED iocb

\* the IOCB is kept in one place that all calling contexts share
Submit_shared(c, st, req) ==
  LET top == st.frames[Len(st.frames)]
      entry == IF st.frames = <<>> THEN LogEntry("initial", st.next, req.idx, 0)
               ELSE LogEntry(top.phase, st.next, req.idx, top.at) IN
  /\ pc' = [pc EXCEPT ![c] = "wait"]
  /\ iocb' = [d \in Callers |-> [req |-> req, state |-> "pending", sig |-> NoSig]]
  /\ log' = [log EXCEPT ![c] = Append(st.log, entry)]
  /\ frames' = [frames EXCEPT ![c] = st.frames]
  /\ UNCHANGED outcome

\* iocb = IOCB(request); deferred(self.this_application.request_io, iocb);
\* iocb.wait()
Submit(c, st, req) ==
  LET top == st.frames[Len(st.frames)]
      entry == IF st.frames = <<>> THEN LogEntry("initial", st.next, req.idx, 0)
               ELSE LogEntry(top.phase, st.next, req.idx, top.at) IN
  /\ pc' = [pc EXCEPT ![c] = "wait"]
  /\ iocb' = [iocb EXCEPT ![c] = [req |-> req, state |-> "pending", sig |-> NoSig]]
  /\ log' = [log EXCEPT ![c] = Append(st.log, entry)]
  /\ frames' = [frames EXCEPT ![c] = st.frames]
  /\ UNCHANGED outcome

\* read without the test of self._started
EnterRead_unchecked(c, a, st) ==
  IF st.next = NoCall THEN Finish(c, st)
  ELSE LET b == build_rp_request(a, st.next) IN
       IF b.ok THEN Submit(c, st, b.req) ELSE Finish(c, Unwind(st.log, b.err))

\* self.read(args, arr_index=st.next) up to its iocb.wait(), or the end of
\* the public call
EnterRead(c, a, st) ==
  IF st.next = NoCall THEN Finish(c, st)
  ELSE IF ~started THEN Finish(c, Unwind(st.log, "ApplicationNotStarted"))
  ELSE LET b == build_rp_request(a, st.next) IN
       IF b.ok THEN Submit(c, st, b.req) ELSE Finish(c, Unwind(st.log, b.err))

----------------------------------------------------------------------------
(* ReadPropertyMultiple: the device's answer and readMultiple after wait *)

\* the properties a device returns for all / required / optional
AllProps(obj) ==
  CASE obj = "analogInput" -> <<"presentValue", "units">>
    [] obj = "device" -> <<"objectList", "description">>
    [] OTHER -> <<"description">>

RECURSIVE ExpandRefs(_, _, _)
\* the result elements a device answers the references of one group with;
\* extra: it also holds a property the registry does not know
ExpandRefs(obj, refs, extra) ==
  IF refs = <<>> THEN <<>>
  ELSE LET r == Head(refs)
           own == IF r.prop \in {"all", "required", "optional"}
                  THEN [k \in 1..Len(AllProps(obj)) |-> Ref(AllProps(obj)[k], NoIndex)]
                       \o (IF extra THEN <<Ref("proprietary", NoIndex)>> ELSE <<>>)
                  ELSE <<r>> IN
       own \o ExpandRefs(obj, Tail(refs), extra)

RECURSIVE FlatRefs(_, _)
\* (obj, prop, idx) of every result element of an answer, over all groups
FlatRefs(specs, extra) ==
  IF specs = <<>> THEN <<>>
  ELSE LET e == ExpandRefs(Head(specs).obj, Head(specs).refs, extra) IN
       [k \in 1..Len(e) |-> [obj |-> Head(specs).obj, prop |-> e[k].prop, idx |-> e[k].idx]]
       \o FlatRefs(Tail(specs), extra)

RawOne(obj, prop, idx) ==
  IF prop = "proprietary" THEN V("Unsigned", 1)
  ELSE IF RawFor(obj, prop, idx) = {} THEN PyNone
  ELSE CHOOSE r \in RawFor(obj, prop, idx) : TRUE

RECURSIVE AckResults(_, _, _, _)
\* listOfReadAccessResults: m tells which elements carry propertyAccessError
AckResults(specs, m, off, extra) ==
  IF specs = <<>> THEN <<>>
  ELSE LET obj == Head(specs).obj
           e == ExpandRefs(obj, Head(specs).refs, extra) IN
       <<[obj |-> obj,
          elems |-> [k \in 1..Len(e) |->
                       [prop |-> e[k].prop, idx |-> e[k].idx, err |-> m[off + k],
                        raw |-> RawOne(obj, e[k].prop, e[k].idx)]]]>>
       \o AckResults(Tail(specs), m, off + Len(e), extra)

HasKeyword(specs) ==
  \E g \in 1..Len(specs) : \E k \in 1..Len(specs[g].refs) :
     specs[g].refs[k].prop \in {"all", "required", "optional"}

\* which elements of an answer may carry propertyAccessError: an element the
\* device cannot read must, any other may
ErrorMasks(flat) ==
  {f \in [1..Len(flat) -> BOOLEAN] :
     \A k \in 1..Len(flat) :
        (flat[k].prop # "proprietary"
         /\ RawFor(flat[k].obj, flat[k].prop, flat[k].idx) = {}) => f[k]}

\* the acknowledgements a device can answer a ReadPropertyMultiple with
MultipleAcks(specs) ==
  UNION {{AckMultiple(AckResults(specs, m, 0, extra)) :
            m \in ErrorMasks(FlatRefs(specs, extra))} :
         extra \in (IF HasKeyword(specs) THEN BOOLEAN ELSE {FALSE})}

\* the acknowledgements a device can answer a ReadProperty with
SingleAcks(req) ==
  {Ack(req.obj, req.prop, req.idx, r) : r \in RawFor(req.obj, req.prop, req.idx)}
  \cup {Ack(req.obj, "proprietary", req.idx, V("Unsigned", 1))}

\* every way the stack can complete the IOCB of req
Completions(req, depth) ==
  IF req.kind = "rp" THEN SingleAcks(req) \cup {NotAck} \cup Failures(depth)
  ELSE MultipleAcks(req.specs) \cup {NotAck} \cup Failures(0)

\* index 0 of an array is cast as the array's element
RpmCastTarget_subtype(datatype, propertyArrayIndex) ==
  IF datatype.array /\ propertyArrayIndex # NoIndex
  THEN datatype.subtype
  ELSE datatype.name

\* the class the value of one result element is cast to
RpmCastTarget(datatype, propertyArrayIndex) ==
  IF datatype.array /\ propertyArrayIndex # NoIndex
  THEN (IF propertyArrayIndex = 0 THEN "Unsigned" ELSE datatype.subtype)
  ELSE datatype.name

\* the element with the access error is left out
AppendAccessError_skip(values) == values

\* values.append(None) for an element with propertyAccessError
AppendAccessError(values) == Append(values, PyNone)

Values(err, values) == [err |-> err, values |-> values]

RECURSIVE ElementValues(_, _, _)
\* for element in result.listOfResults
ElementValues(obj, elems, values) ==
  IF elems = <<>> THEN Values("", values)
  ELSE LET element == Head(elems) IN
       IF element.err THEN ElementValues(obj, Tail(elems), AppendAccessError(values))
       ELSE LET datatype == get_datatype(obj, element.prop) IN
            IF datatype = NoType THEN Values("TypeError", values)
            ELSE LET c == cast_out(element.raw, RpmCastTarget(datatype, element.idx)) IN
                 IF c.ok THEN ElementValues(obj, Tail(elems), Append(values, c.val))
                 ELSE Values("DecodingError", values)

RECURSIVE ResultValues(_, _)
\* for result in apdu.listOfReadAccessResults
ResultValues(results, values) ==
  IF results = <<>> THEN Values("", values)
  ELSE LET r == ElementValues(Head(results).obj, Head(results).elems, values) IN
       IF r.err # "" THEN r ELSE ResultValues(Tail(results), r.values)

\* the successful-response branch of readMultiple
MultipleResponse(apdu) ==
  IF apdu.type # "ack" THEN Raise("IndexError")
  ELSE LET r == ResultValues(apdu.results, <<>>) IN
       IF r.err # "" THEN Raise(r.err) ELSE Return(VList(r.values))

\* the error branch of readMultiple
MultipleError(apdu) ==
  LET reason == find_reason(apdu) IN
  IF ~reason.ok THEN Raise(reason.name)
  ELSE IF ReasonIs(reason, "unrecognizedService") THEN Raise("UnrecognizedService")
  ELSE IF ReasonIs(reason, "segmentationNotSupported")
       THEN Raise("SegmentationNotSupported")
  ELSE IF ReasonIs(reason, "unknownObject") THEN Raise("UnknownObjectError")
  ELSE IF ReasonIs(reason, "unknownProperty") THEN Return(VList(<<EmptyStr>>))
  ELSE Return(VList(<<EmptyStr>>))

MultipleInterp(apdu) ==
  IF apdu.type \in {"ack", "notAck"} THEN MultipleResponse(apdu) ELSE MultipleError(apdu)

----------------------------------------------------------------------------
(* The commands the callers issue *)

ReadCommands ==
  {<<"2:5", "analogInput", "1", "units">>,
   <<"2:5", "analogInput", "1", "description">>,
   <<"2:5", "program", "1", "descriptionOfHalt">>,
   <<"2:5", "device", "8", "objectList">>,
   <<"2:5", "8", "8", "76">>,
   <<"2:5", "device", "8", "objectList", "0">>,
   <<"2:5", "bogus", "1", "units">>,
   <<"2:5", "analogInput", "1", "objectList">>,
   <<"2:5", "analogInput", "1">>}

MultipleCommands ==
  {<<"2:5", "analogInput", "1", "presentValue", "units">>,
   <<"2:5", "analogInput", "1", "presentValue", "device", "8", "objectList", "0",
     "description">>,
   <<"2:5", "8", "8", "all">>,
   <<"2:5", "device", "8", "objectList", "1">>,
   <<"2:5", "bogus", "1", "units">>,
   <<"2:5", "analogInput", "1", "objectList">>,
   <<"2:5", "analogInput", "1">>,
   <<"2:5", "analogInput">>,
   <<"2:5">>}

----------------------------------------------------------------------------
(* Actions *)

Init ==
  /\ started \in BOOLEAN
  /\ devLen \in 0..MaxN
  /\ pc = [c \in Callers |-> IF c = 1 THEN "idle" ELSE "off"]
  /\ op = [c \in Callers |-> "none"]
  /\ args = [c \in Callers |-> <<>>]
  /\ frames = [c \in Callers |-> <<>>]
  /\ iocb = [c \in Callers |-> NoIocb]
  /\ log = [c \in Callers |-> <<>>]
  /\ outcome = [c \in Callers |-> NoOutcome]

\* bacnet.read(a)
Read(c, a) ==
  /\ pc[c] = "idle"
  /\ op' = [op EXCEPT ![c] = "read"]
  /\ args' = [args EXCEPT ![c] = a]
  /\ EnterRead(c, a, Step(<<>>, <<>>, NoOutcome, NoIndex))
  /\ UNCHANGED <<started, devLen>>

\* iocb.wait() does not block: with neither ioResponse nor ioError set read
\* falls through both branches and returns None
ReadResume_nowait(c) ==
  /\ pc[c] = "wait"
  /\ op[c] = "read"
  /\ iocb[c].state \in {"pending", "complete"}
  /\ LET pos == Len(log[c])
         lg == [log[c] EXCEPT ![pos].sig = iocb[c].sig]
         r == IF iocb[c].state = "pending" THEN Return(PyNone)
              ELSE ReadInterp(args[c], iocb[c].sig)
         st == CASE r.kind = "return" -> ReturnTo(frames[c], lg, r.val, pos)
                 [] r.kind = "raise" -> Unwind(lg, r.err)
                 [] OTHER -> Step(Append(frames[c], NewFrame(pos)), lg, NoOutcome, 0)
     IN EnterRead(c, args[c], st)
  /\ UNCHANGED <<started, devLen, op, args>>

\* read resumes after iocb.wait()
ReadResume(c) ==
  /\ pc[c] = "wait"
  /\ op[c] = "read"
  /\ iocb[c].state = "complete"
  /\ LET pos == Len(log[c])
         lg == [log[c] EXCEPT ![pos].sig = iocb[c].sig]
         r == ReadInterp(args[c], iocb[c].sig)
         st == CASE r.kind = "return" -> ReturnTo(frames[c], lg, r.val, pos)
                 [] r.kind = "raise" -> Unwind(lg, r.err)
                 [] OTHER -> Step(Append(frames[c], NewFrame(pos)), lg, NoOutcome, 0)
     IN EnterRead(c, args[c], st)
  /\ UNCHANGED <<started, devLen, op, args>>

\* bacnet.readMultiple(a)
ReadMultiple(c, a) ==
  /\ pc[c] = "idle"
  /\ op' = [op EXCEPT ![c] = "readMultiple"]
  /\ args' = [args EXCEPT ![c] = a]
  /\ IF ~started THEN Finish(c, Unwind(<<>>, "ApplicationNotStarted"))
     ELSE LET b == build_rpm_request(a) IN
          IF b.ok THEN Submit(c, Step(<<>>, <<>>, NoOutcome, NoIndex), b.req)
          ELSE Finish(c, Unwind(<<>>, b.err))
  /\ UNCHANGED <<started, devLen>>

\* readMultiple resumes after iocb.wait()
ReadMultipleResume(c) ==
  /\ pc[c] = "wait"
  /\ op[c] = "readMultiple"
  /\ iocb[c].state = "complete"
  /\ LET lg == [log[c] EXCEPT ![1].sig = iocb[c].sig]
         r == MultipleInterp(iocb[c].sig) IN
     IF r.kind = "return" THEN Finish(c, Step(<<>>, [lg EXCEPT ![1].ret = r.val], r, NoCall))
     ELSE Finish(c, Unwind(lg, r.err))
  /\ UNCHANGED <<started, devLen, op, args>>

\* the stack completes the pending IOCB with a response or an error
StackComplete(c) ==
  /\ pc[c] = "wait"
  /\ iocb[c].state = "pending"
  /\ \E sig \in Completions(iocb[c].req, Len(frames[c])) :
        iocb' = [iocb EXCEPT ![c] = [@ EXCEPT !.state = "complete", !.sig = sig]]
  /\ UNCHANGED <<started, devLen, pc, op, args, frames, log, outcome>>

Next ==
  \E c \in Callers :
     \/ \E a \in ReadCommands : Read(c, a)
     \/ ReadResume(c)
     \/ \E a \in MultipleCommands : ReadMultiple(c, a)
     \/ ReadMultipleResume(c)
     \/ StackComplete(c)

Spec == Init /\ [][Next]_vars

\* both calling contexts call, on a started stack and a device with one
\* element
InitConcurrent ==
  /\ started = TRUE
  /\ devLen = 1
  /\ pc = [c \in Callers |-> "idle"]
  /\ op = [c \in Callers |-> "none"]
  /\ args = [c \in Callers |-> <<>>]
  /\ frames = [c \in Callers |-> <<>>]
  /\ iocb = [c \in Callers |-> NoIocb]
  /\ log = [c \in Callers |-> <<>>]
  /\ outcome = [c \in Callers |-> NoOutcome]

ConcurrentSpec == InitConcurrent /\ [][Next]_vars

----------------------------------------------------------------------------
(* build_rpm_request over the multi-read commands of k object groups *)

MaxGroups == 2
MaxProps == 2

\* object type tokens: a symbolic name and a raw integer type code
GroupTypes == {"analogInput", "8"}

\* a property the registry holds for the object type
GroupProperty(type) == IF type = "analogInput" THEN "presentValue" ELSE "objectList"

RECURSIVE PropertyTokens(_, _)
\* n property tokens, each with or without the array index 0
PropertyTokens(type, n) ==
  IF n = 0 THEN {<<>>}
  ELSE {one \o rest : one \in {<<GroupProperty(type)>>, <<GroupProperty(type), "0">>},
                      rest \in PropertyTokens(type, n - 1)}

\* object type, instance, one or more properties
GroupTokens ==
  UNION {{<<type, "1">> \o props : props \in PropertyTokens(type, n)} :
           type \in GroupTypes, n \in 1..MaxProps}

RECURSIVE GroupSequences(_)
GroupSequences(k) ==
  IF k = 0 THEN {<<>>}
  ELSE {group \o rest : group \in GroupTokens, rest \in GroupSequences(k - 1)}

\* args.split() of the commands with 1..MaxGroups object groups
GroupCommands ==
  {<<"2:5">> \o groups : groups \in UNION {GroupSequences(k) : k \in 1..MaxGroups}}

\* the command handed to readMultiple is one of the group commands
InitBuild ==
  /\ started = TRUE
  /\ devLen = 0
  /\ pc = [c \in Callers |-> IF c = 1 THEN "idle" ELSE "off"]
  /\ op = [c \in Callers |-> "none"]
  /\ args \in {[c \in Callers |-> IF c = 1 THEN a ELSE <<>>] : a \in GroupCommands}
  /\ frames = [c \in Callers |-> <<>>]
  /\ iocb = [c \in Callers |-> NoIocb]
  /\ log = [c \in Callers |-> <<>>]
  /\ outcome = [c \in Callers |-> NoOutcome]

\* readMultiple builds the request of the command and submits it
NextBuild == \E c \in Callers : ReadMultiple(c, args[c])

BuildSpec == InitBuild /\ [][NextBuild]_vars

\* a calling context that can run does run; nothing makes the stack complete
\* a request
LiveSpec ==
  Spec /\ \A c \in Callers : WF_vars(ReadResume(c)) /\ WF_vars(ReadMultipleResume(c))

----------------------------------------------------------------------------
(* Properties *)

\* a value a read call returned, as opposed to the placeholders of the log
IsValue(v) == v.t # "pending" /\ v.n # -1

\* the failure signal is an abort with reason segmentationNotSupported
IsSegmentationAbort(sig) == sig.type = "abort" /\ sig.code = 4

\* the read calls the fallback of the read call at p made
ProbesOf(c, p) == {q \in DOMAIN log[c] : log[c][q].parent = p /\ log[c][q].role = "probe"}
ElemsOf(c, p) == {q \in DOMAIN log[c] : log[c][q].parent = p /\ log[c][q].role = "elem"}
\* the per-index read of the fallback of p for index j
ElemOf(c, p, j) == CHOOSE q \in ElemsOf(c, p) : log[c][q].arr = j

\* the fallback of the read call at p got the count n from its probe and a
\* value from each of the n per-index reads
FallbackRead(c, p, n) ==
  /\ IsSegmentationAbort(log[c][p].sig)
  /\ \E q \in ProbesOf(c, p) : log[c][q].ret = V("Unsigned", n)
  /\ \A j \in 1..n : \E q \in ElemsOf(c, p) : log[c][q].arr = j /\ IsValue(log[c][q].ret)

\* C1: when the request of a read fails with segmentationNotSupported, the
\* probe returns the count N and each of the N per-index reads returns a
\* value, the read returns the list of these N values in index order (the
\* empty list for N = 0); for a command without an index token of its own
\* the i-th entry is the device's element i.
C1_FallbackReturnsOrderedList ==
  \A c \in Callers : \A p \in DOMAIN log[c] : \A n \in 0..(MaxN + 1) :
     FallbackRead(c, p, n) =>
        /\ Cardinality(ElemsOf(c, p)) = n
        /\ \A j \in 1..n : j > 1 => ElemOf(c, p, j - 1) < ElemOf(c, p, j)
        /\ log[c][p].ret = VList([j \in 1..n |-> log[c][ElemOf(c, p, j)].ret])
        /\ p = 1 => (pc[c] = "done" /\ outcome[c] = Return(log[c][p].ret))
        /\ Len(args[c]) = 4 =>
             \A j \in 1..n :
                log[c][ElemOf(c, p, j)].sig.type = "ack"
                   => log[c][p].ret.items[j] = V("ObjectIdentifier", ElemAt(j))

\* a read ended with a fallback list of two different values
C1_Witness ==
  /\ pc[1] = "done"
  /\ op[1] = "read"
  /\ log[1] # <<>>
  /\ FallbackRead(1, 1, 2)
  /\ outcome[1].kind = "return"
  /\ Len(outcome[1].val.items) = 2
  /\ outcome[1].val.items[1] # outcome[1].val.items[2]

\* a read ended with the empty fallback list
C1_WitnessEmpty ==
  pc[1] = "done" /\ log[1] # <<>> /\ FallbackRead(1, 1, 0)
  /\ outcome[1] = Return(VList(<<>>))

\* the read call of this log entry raised e
HasRaised(entry) == entry.ret.n = -1

C3_CallNeverBlocksForever ==
  \A c \in Callers : (pc[c] = "wait") ~> (pc[c] = "done")

\* C4: read or readMultiple on a stack that is not started raises
\* ApplicationNotStarted, and no request is built or submitted.
C4_NotStartedRaisesWithoutRequest ==
  ~started =>
     \A c \in Callers :
        /\ iocb[c] = NoIocb
        /\ log[c] = <<>>
        /\ pc[c] \in {"off", "idle", "done"}
        /\ pc[c] = "done" => outcome[c] = Raise("ApplicationNotStarted")

\* a read was called on a stack that is not started
C4_Witness ==
  ~started /\ pc[1] = "done" /\ op[1] = "read" /\ outcome[1].kind = "raise"

\* a readMultiple was called on a stack that is not started
C4_WitnessMultiple ==
  ~started /\ pc[1] = "done" /\ op[1] = "readMultiple" /\ outcome[1].kind = "raise"

\* the request completed with a failure signal
IsFailure(sig) == sig.type \in {"reject", "abort", "error"}

\* the reason of a failure signal: the name of the code in the table of the
\* PDU kind, the error code of an application error, "" for a code without
\* name and "unknown" for any other signal
ReasonOfSignal(sig) ==
  CASE sig.type = "reject" -> RejectReasonName(sig.code)
    [] sig.type = "abort" -> AbortReasonName(sig.code)
    [] sig.type = "error" /\ sig.errClass # "" /\ sig.errCode # "" -> sig.errCode
    [] OTHER -> "unknown"

\* C5: a read whose request completes with a failure signal fails with
\* UnknownObject for reason unknownObject and with NoResponseFromController
\* for every reason other than segmentationNotSupported, unknownProperty and
\* unknownObject.
C5_SingleReadFailurePolicy ==
  \A c \in Callers : \A q \in DOMAIN log[c] :
     (op[c] = "read" /\ IsFailure(log[c][q].sig)) =>
        /\ ReasonOfSignal(log[c][q].sig) = "unknownObject"
             => log[c][q].ret = Raised("UnknownObjectError")
        /\ ReasonOfSignal(log[c][q].sig)
              \notin {"segmentationNotSupported", "unknownProperty", "unknownObject"}
             => log[c][q].ret = Raised("NoResponseFromController")

\* C6: a read whose request fails with reason unknownProperty returns the
\* empty string when the property token is "description" and fails with
\* UnknownProperty for every other property token.
C6_UnknownPropertyPolicy ==
  \A c \in Callers : \A q \in DOMAIN log[c] :
     (op[c] = "read" /\ IsFailure(log[c][q].sig)
      /\ ReasonOfSignal(log[c][q].sig) = "unknownProperty") =>
        IF args[c][4] = "description"
        THEN log[c][q].ret = EmptyStr
        ELSE log[c][q].ret = Raised("UnknownPropertyError")

\* C7: a readMultiple whose request completes with a failure signal fails
\* with UnrecognizedService, SegmentationNotSupported (without any further
\* request) or UnknownObject for the reasons of these names, and returns a
\* list of one empty string for unknownProperty and for every other reason.
C7_MultipleFailurePolicy ==
  \A c \in Callers :
     (op[c] = "readMultiple" /\ pc[c] = "done" /\ log[c] # <<>>
      /\ IsFailure(log[c][1].sig)) =>
        LET reason == ReasonOfSignal(log[c][1].sig) IN
        /\ Len(log[c]) = 1
        /\ outcome[c] =
             CASE reason = "unrecognizedService" -> Raise("UnrecognizedService")
               [] reason = "segmentationNotSupported" -> Raise("SegmentationNotSupported")
               [] reason = "unknownObject" -> Raise("UnknownObjectError")
               [] OTHER -> Return(VList(<<EmptyStr>>))

RECURSIVE RequestedRefs(_)
\* the property references of a ReadPropertyMultiple request, group by group
RequestedRefs(specs) ==
  IF specs = <<>> THEN <<>>
  ELSE [k \in 1..Len(Head(specs).refs) |->
          [obj |-> Head(specs).obj, prop |-> Head(specs).refs[k].prop,
           idx |-> Head(specs).refs[k].idx]]
       \o RequestedRefs(Tail(specs))

\* a value as the device holds it, typed by its own tag
TypedValue(raw) == IF raw.t = "ArrayOf" THEN VList(raw.items) ELSE V(raw.t, raw.n)

\* C8: every list readMultiple returns is aligned 1:1 with the property
\* references of the request: one entry per reference, the j-th entry being
\* the value of the j-th reference or the no-value marker.
C8_MultipleResultAligned ==
  \A c \in Callers :
     (op[c] = "readMultiple" /\ pc[c] = "done" /\ outcome[c].kind = "return") =>
        LET refs == RequestedRefs(iocb[c].req.specs)
            items == outcome[c].val.items IN
        /\ Len(items) = Len(refs)
        /\ \A j \in 1..Len(refs) :
              \/ items[j] = PyNone
              \/ \E r \in RawFor(refs[j].obj, refs[j].prop, refs[j].idx) :
                    items[j] = TypedValue(r)

RECURSIVE FlatElems(_)
\* the result elements of an acknowledgement, group by group
FlatElems(results) ==
  IF results = <<>> THEN <<>>
  ELSE [k \in 1..Len(Head(results).elems) |->
          [obj |-> Head(results).obj, prop |-> Head(results).elems[k].prop,
           err |-> Head(results).elems[k].err, raw |-> Head(results).elems[k].raw]]
       \o FlatElems(Tail(results))

\* C9: in a ReadPropertyMultipleACK an element with a property access error
\* gives the no-value marker at its own position and does not end the batch:
\* every other element gives its cast value at its own position.
C9_AccessErrorKeepsBatch ==
  \A c \in Callers :
     (op[c] = "readMultiple" /\ pc[c] = "done" /\ log[c] # <<>>
      /\ log[c][1].sig.type = "ack") =>
        LET elems == FlatElems(log[c][1].sig.results) IN
        (\A k \in 1..Len(elems) :
            elems[k].err \/ get_datatype(elems[k].obj, elems[k].prop) # NoType) =>
           outcome[c] =
             Return(VList([k \in 1..Len(elems) |->
                             IF elems[k].err THEN PyNone ELSE TypedValue(elems[k].raw)]))

\* a readMultiple over two groups returned a marker between two values
C9_Witness ==
  /\ op[1] = "readMultiple"
  /\ pc[1] = "done"
  /\ outcome[1].kind = "return"
  /\ log[1] # <<>>
  /\ log[1][1].sig.type = "ack"
  /\ Len(log[1][1].sig.results) = 2
  /\ Len(outcome[1].val.items) = 3
  /\ outcome[1].val.items[1] # PyNone
  /\ outcome[1].val.items[2] = PyNone
  /\ outcome[1].val.items[3] # PyNone

\* the error kinds of the error taxonomy, by the exception that stands for
\* them in the code
DocumentedErrors ==
  {"ApplicationNotStarted", "ValueError", "RuntimeError", "TypeError",
   "UnrecognizedService", "SegmentationNotSupported", "UnknownObjectError",
   "UnknownPropertyError", "NoResponseFromController"}

\* C10: a call that ends either returns a value, a list or a list with
\* placeholders, or raises one of the documented error kinds; it never
\* returns nothing and never raises another error.
C10_OneDocumentedOutcome ==
  \A c \in Callers :
     pc[c] = "done" =>
        \/ outcome[c].kind = "return" /\ outcome[c].val # PyNone /\ outcome[c].err = ""
        \/ outcome[c].kind = "raise" /\ ErrorClass(outcome[c].err) \in DocumentedErrors

\* the object type token names no object type
BadObjectType(a) == Len(a) >= 2 /\ ~isdigit(a[2]) /\ ~get_object_class(a[2])

\* object type and instance are well formed
GoodObject(a) ==
  Len(a) >= 3 /\ (isdigit(a[2]) \/ get_object_class(a[2])) /\ isdigit(a[3])

\* the property token of a single read is no property of the object type
BadReadProperty(a) ==
  Len(a) >= 4 /\ GoodObject(a) /\ get_datatype(ObjTypeOf(a[2]), PropOf(a[4])) = NoType

\* the first property token of a multiple read is a property identifier, but
\* no property of the object type
BadMultipleProperty(a) ==
  /\ Len(a) >= 4
  /\ GoodObject(a)
  /\ a[4] \in PropertyIdentifierEnumerations \ {"all", "required", "optional"}
  /\ get_datatype(ObjTypeOf(a[2]), a[4]) = NoType

\* the first object group of a multiple read has no property reference
NoPropertyReference(a) ==
  GoodObject(a) /\ (Len(a) = 3 \/ a[4] \notin PropertyIdentifierEnumerations)

\* a multiple read without object group
NoObjectGroup(a) == Len(a) = 1

\* the local validation of the command of caller c fails
FailsValidation(c) ==
  \/ op[c] = "read" /\ Len(args[c]) >= 4
       /\ (BadObjectType(args[c]) \/ BadReadProperty(args[c]))
  \/ op[c] = "readMultiple"
       /\ (BadObjectType(args[c]) \/ BadMultipleProperty(args[c])
           \/ NoPropertyReference(args[c]) \/ NoObjectGroup(args[c]))

\* C11: when the command fails local validation (unknown object type,
\* invalid property for the object type, a group without property reference,
\* no group at all) the call raises an invalid-request error and no request
\* is submitted; unknown object type and invalid property are reported as
\* two different errors.
C11_ValidationFailsBeforeSubmit ==
  \A c \in Callers :
     (started /\ pc[c] # "idle" /\ pc[c] # "off" /\ FailsValidation(c)) =>
        /\ pc[c] = "done"
        /\ log[c] = <<>>
        /\ iocb[c] = NoIocb
        /\ outcome[c].kind = "raise"
        /\ ErrorClass(outcome[c].err) \in {"ValueError", "RuntimeError"}
        /\ BadObjectType(args[c]) => outcome[c].err = UnknownObjectType
        /\ (BadReadProperty(args[c]) /\ op[c] = "read") => outcome[c].err = InvalidProperty
        /\ (BadMultipleProperty(args[c]) /\ op[c] = "readMultiple")
             => outcome[c].err = InvalidProperty

\* everything one call owns
Own(c) == <<pc[c], op[c], args[c], frames[c], iocb[c], log[c], outcome[c]>>

\* the request the read call at place k of the log of c built
RequestAt(c, k) ==
  IF op[c] = "read" THEN build_rp_request(args[c], log[c][k].arr).req
  ELSE build_rpm_request(args[c]).req

\* the acknowledgement answers the request: it names the object, and for a
\* single read the array index, of the request
Answers(sig, req) ==
  IF req.kind = "rp"
  THEN sig.results = <<>> /\ sig.obj = req.obj /\ sig.idx = req.idx
  ELSE /\ Len(sig.results) = Len(req.specs)
       /\ \A g \in 1..Len(req.specs) : sig.results[g].obj = req.specs[g].obj

\* the pending operation of every call holds the request that call built,
\* and every acknowledgement a call consumed answers a request of that call
OwnPendingOperation ==
  \A c \in Callers :
     /\ pc[c] = "wait" => iocb[c].req = RequestAt(c, Len(log[c]))
     /\ \A k \in DOMAIN log[c] :
           log[c][k].sig.type = "ack" => Answers(log[c][k].sig, RequestAt(c, k))

\* a step touches what one call owns and nothing of any other call
OneCallPerStep ==
  \A c \in Callers : \A d \in Callers :
     (c # d /\ Own(c)' # Own(c)) => Own(d)' = Own(d)

\* C12: with several calls in flight every call owns its pending operation
\* and its result accumulator: under every interleaving of submissions and
\* completions a call's state changes only by its own steps and by the
\* completion of the requests it submitted itself.
C12_CallsAreIndependent == []OwnPendingOperation /\ [][OneCallPerStep]_vars

\* a fallback of one call and a readMultiple of the other are in flight
C12_Witness ==
  /\ pc[1] = "wait"
  /\ pc[2] = "wait"
  /\ op[1] = "read"
  /\ op[2] = "readMultiple"
  /\ Len(log[1]) >= 2
  /\ iocb[1].state = "complete"
  /\ iocb[2].state = "pending"

\* C13: for every single read whose first request fails with
\* segmentationNotSupported, also one with an array index token of its own,
\* the probing request is the original read with array index 0 and the
\* request of step i is the original read with array index i.
C13_FallbackRequestsCarryTheirIndex ==
  \A c \in Callers : \A q \in DOMAIN log[c] :
     /\ log[c][q].role = "probe" => (log[c][q].arr = 0 /\ log[c][q].idx = 0)
     /\ log[c][q].role = "elem" => (log[c][q].arr >= 1 /\ log[c][q].idx = log[c][q].arr)
     /\ (log[c][q].role # "initial" /\ q = Len(log[c]) /\ pc[c] = "wait") =>
          /\ iocb[c].req.obj = RequestAt(c, 1).obj
          /\ iocb[c].req.inst = RequestAt(c, 1).inst
          /\ iocb[c].req.prop = RequestAt(c, 1).prop

\* the same for the commands without an array index token
C13_WithoutIndexToken ==
  \A c \in Callers : \A q \in DOMAIN log[c] :
     Len(args[c]) = 4 =>
        /\ log[c][q].role = "probe" => (log[c][q].arr = 0 /\ log[c][q].idx = 0)
        /\ log[c][q].role = "elem" => (log[c][q].arr >= 1 /\ log[c][q].idx = log[c][q].arr)

\* C14: when the request of the index-0 probe of a fallback fails, whatever
\* the reason (segmentationNotSupported again and unknownProperty included),
\* that failure goes to the caller of the original read: no further fallback
\* starts, no per-element request is submitted and the call ends.
C14_ProbeFailureEndsCall ==
  \A c \in Callers : \A q \in DOMAIN log[c] :
     (log[c][q].role = "probe" /\ IsFailure(log[c][q].sig)) =>
        /\ pc[c] = "done"
        /\ q = Len(log[c])
        /\ outcome[c].kind = "raise"
        /\ ReasonOfSignal(log[c][q].sig) = "unknownProperty"
             => outcome[c].err = "UnknownPropertyError"
        /\ ReasonOfSignal(log[c][q].sig) = "unknownObject"
             => outcome[c].err = "UnknownObjectError"

\* the probe of a fallback was aborted with segmentationNotSupported and
\* the call went on with a second probe
C14_SecondFallback ==
  \E q \in DOMAIN log[1] :
     /\ log[1][q].role = "probe"
     /\ IsSegmentationAbort(log[1][q].sig)
     /\ q < Len(log[1])
     /\ log[1][q + 1].role = "probe"
     /\ log[1][q + 1].parent = q

\* the call of c ends before any request is built: the stack is not
\* started or the command fails validation
EndsBeforeDispatch(c) ==
  \/ ~started
  \/ op[c] = "read" /\ ~build_rp_request(args[c], NoIndex).ok
  \/ op[c] = "readMultiple" /\ ~build_rpm_request(args[c]).ok

\* the fallback of the read call at p succeeded with the count n
FallbackDone(c, p, n) ==
  /\ IsSegmentationAbort(log[c][p].sig)
  /\ log[c][p].ret.t = "list"
  /\ \E q \in ProbesOf(c, p) : log[c][q].ret = V("Unsigned", n)

\* the requests the fallback of the read call at p and the fallbacks nested
\* in it submitted
RECURSIVE Below(_, _)
Below(c, p) ==
  LET kids == {q \in DOMAIN log[c] : log[c][q].parent = p} IN
  kids \cup UNION {Below(c, q) : q \in kids}

OneOutstanding(c) ==
  \A q \in DOMAIN log[c] :
     log[c][q].sig = NoSig =>
        /\ q = Len(log[c])
        /\ pc[c] = "wait"
        /\ iocb[c].state \in {"pending", "complete"}
        /\ iocb[c].req.idx = log[c][q].idx

\* the per-element requests of the fallback of p were submitted in the order
\* of their indexes, each after the one before it had completed
InIndexOrder(c, p) ==
  \A q \in ElemsOf(c, p) :
     /\ \A r \in ElemsOf(c, p) : log[c][r].arr < log[c][q].arr => r < q
     /\ log[c][q].arr > 1 =>
          \E r \in ElemsOf(c, p) :
             /\ log[c][r].arr = log[c][q].arr - 1
             /\ log[c][r].sig # NoSig

\* a request is submitted only by a call whose previous request is complete
SubmitsAfterCompletion ==
  \A c \in Callers :
     (log[c] # <<>> /\ Len(log'[c]) > Len(log[c])) =>
        /\ iocb[c].state = "complete"
        /\ Len(log'[c]) = Len(log[c]) + 1

\* C16: the per-element requests of a fallback are issued strictly in
\* sequence: the request for the next index is submitted only after the
\* request for the previous index has completed, so a fallback has at most
\* one outstanding request at any time.
C16_FallbackIsSequential ==
  /\ [](\A c \in Callers :
          /\ OneOutstanding(c)
          /\ \A p \in DOMAIN log[c] : InIndexOrder(c, p))
  /\ [][SubmitsAfterCompletion]_vars

\* the request for index 2 is outstanding and the one for index 1 complete
C16_Witness ==
  /\ pc[1] = "wait"
  /\ iocb[1].state = "pending"
  /\ log[1] # <<>>
  /\ log[1][Len(log[1])].role = "elem"
  /\ log[1][Len(log[1])].arr = 2
  /\ \E r \in ElemsOf(1, log[1][Len(log[1])].parent) :
        log[1][r].arr = 1 /\ IsValue(log[1][r].ret)

\* the cast rule as stated: index 0 of an array is the unsigned count, any
\* other index an element of the array, everything else the property's own
\* datatype
CastRule(datatype, index) ==
  CASE datatype.array /\ index = 0 -> "Unsigned"
    [] datatype.array /\ index # 0 /\ index # NoIndex -> datatype.subtype
    [] OTHER -> datatype.name

\* the value of (obj, prop, index) cast by the rule
CastByRule(obj, prop, index, raw) ==
  LET klass == CastRule(get_datatype(obj, prop), index) IN
  IF klass = "ArrayOf" THEN VList(raw.items) ELSE V(klass, raw.n)

RECURSIVE IndexedElems(_)
\* the result elements of an acknowledgement with their array indexes
IndexedElems(results) ==
  IF results = <<>> THEN <<>>
  ELSE [k \in 1..Len(Head(results).elems) |->
          [obj |-> Head(results).obj, prop |-> Head(results).elems[k].prop,
           idx |-> Head(results).elems[k].idx,
           err |-> Head(results).elems[k].err, raw |-> Head(results).elems[k].raw]]
       \o IndexedElems(Tail(results))

Datatypes ==
  {DT("Real"), DT("EngineeringUnits"), DT("CharacterString"),
   ArrayOf("ObjectIdentifier")}

\* C17: read and readMultiple choose the cast target of a value by the same
\* rule: array datatype and index 0 gives the unsigned count, array datatype
\* and another index the element subtype, every other case the property's
\* own datatype.
C17_SameCastRule ==
  /\ \A d \in Datatypes : \A i \in {NoIndex} \cup 0..(MaxN + 1) :
        /\ ReadCastTarget(d, i) = CastRule(d, i)
        /\ RpmCastTarget(d, i) = CastRule(d, i)
  /\ \A c \in Callers :
        /\ op[c] = "read" =>
             \A q \in DOMAIN log[c] :
                LET sig == log[c][q].sig IN
                (sig.type = "ack" /\ get_datatype(sig.obj, sig.prop) # NoType) =>
                   log[c][q].ret = CastByRule(sig.obj, sig.prop, sig.idx, sig.raw)
        /\ (op[c] = "readMultiple" /\ pc[c] = "done" /\ log[c] # <<>>
            /\ log[c][1].sig.type = "ack") =>
             LET elems == IndexedElems(log[c][1].sig.results) IN
             (\A k \in 1..Len(elems) :
                 elems[k].err \/ get_datatype(elems[k].obj, elems[k].prop) # NoType) =>
                outcome[c] =
                  Return(VList([k \in 1..Len(elems) |->
                     IF elems[k].err THEN PyNone
                     ELSE CastByRule(elems[k].obj, elems[k].prop, elems[k].idx,
                                     elems[k].raw)]))

\* a readMultiple returned the unsigned count for index 0 of an array next
\* to a value cast with the property's own datatype
C17_Witness ==
  /\ op[1] = "readMultiple"
  /\ pc[1] = "done"
  /\ outcome[1].kind = "return"
  /\ log[1][1].sig.type = "ack"
  /\ LET elems == IndexedElems(log[1][1].sig.results) IN
     /\ Len(outcome[1].val.items) = Len(elems)
     /\ \E k \in 1..Len(elems) :
           /\ elems[k].prop = "objectList" /\ elems[k].idx = 0
           /\ outcome[1].val.items[k] = V("Unsigned", devLen)
     /\ \E k \in 1..Len(elems) :
           /\ elems[k].prop = "presentValue"
           /\ outcome[1].val.items[k].t = "Real"

\* a readMultiple returned an element of the array for index 1
C17_WitnessElement ==
  /\ op[1] = "readMultiple"
  /\ pc[1] = "done"
  /\ outcome[1] = Return(VList(<<V("ObjectIdentifier", ElemAt(1))>>))

\* a read returned the count for index 0 and then an element for index 1
C17_WitnessRead ==
  /\ op[1] = "read"
  /\ \E q, r \in DOMAIN log[1] :
        /\ log[1][q].sig.type = "ack" /\ log[1][q].sig.idx = 0
        /\ log[1][q].ret.t = "Unsigned"
        /\ log[1][r].sig.type = "ack" /\ log[1][r].sig.idx = 1
        /\ log[1][r].ret.t = "ObjectIdentifier"

\* C18: a call whose request completes with a response that is not the
\* acknowledgement expected for the request kind returns no value and does
\* not raise.
C18_UnexpectedResponseReturnsNothing ==
  \A c \in Callers : \A q \in DOMAIN log[c] :
     log[c][q].sig.type = "notAck" => log[c][q].ret = PyNone

\* a read and a readMultiple got a response that is no acknowledgement
C18_NotAckRead ==
  op[1] = "read" /\ \E q \in DOMAIN log[1] : log[1][q].sig.type = "notAck"
C18_NotAckMultiple ==
  op[1] = "readMultiple" /\ \E q \in DOMAIN log[1] : log[1][q].sig.type = "notAck"

\* find_reason gives for sig the reason the tables and the error fields hold
YieldsReason(sig) ==
  LET r == find_reason(sig) IN
  /\ r.ok
  /\ sig.type = "reject" =>
        r = (IF RejectReasonName(sig.code) # "" THEN Named(RejectReasonName(sig.code))
             ELSE RawCode(sig.code))
  /\ sig.type = "abort" =>
        r = (IF AbortReasonName(sig.code) # "" THEN Named(AbortReasonName(sig.code))
             ELSE RawCode(sig.code))
  /\ (sig.type = "error" /\ sig.errClass # "" /\ sig.errCode # "") => r.name # ""

\* C19: find_reason yields a reason for every failure signal: the name of a
\* reject or abort code from the table of its PDU kind, the raw code when it
\* has no name, the reason formatted from error class and code of an
\* application error, and an "unknown" reason, not a failure, for any other
\* signal.
C19_FindReasonAlwaysYields ==
  \A c \in Callers : \A q \in DOMAIN log[c] :
     IsFailure(log[c][q].sig) => YieldsReason(log[c][q].sig)

\* C19 for the signals that are a reject, an abort or carry class and code
C19_ClassifiedSignals ==
  \A c \in Callers : \A q \in DOMAIN log[c] :
     (IsFailure(log[c][q].sig) /\ log[c][q].sig # Error("", "")) =>
        YieldsReason(log[c][q].sig)

RECURSIVE GroupEnd(_, _)
\* the place of the next object type token from i on, or past the end
GroupEnd(a, i) ==
  IF i > Len(a) \/ a[i] \in GroupTypes THEN i ELSE GroupEnd(a, i + 1)

RECURSIVE GroupRefs(_, _, _)
\* the property references written at places i..j-1 of a group command
GroupRefs(a, i, j) ==
  IF i >= j THEN <<>>
  ELSE IF i + 1 < j /\ a[i + 1] = "0"
       THEN <<Ref(a[i], 0)>> \o GroupRefs(a, i + 2, j)
       ELSE <<Ref(a[i], NoIndex)>> \o GroupRefs(a, i + 1, j)

RECURSIVE WrittenGroups(_, _)
\* the object groups written in a group command, from the type token at i on
WrittenGroups(a, i) ==
  IF i > Len(a) THEN <<>>
  ELSE LET j == GroupEnd(a, i + 2) IN
       <<[obj |-> ObjTypeOf(a[i]), inst |-> IntOf(a[i + 1]),
          refs |-> GroupRefs(a, i + 2, j)]>> \o WrittenGroups(a, j)

\* the request readMultiple submitted holds the groups written in its command
BuildsWrittenGroups(c) ==
  /\ pc[c] = "wait"
  /\ iocb[c].req.kind = "rpm"
  /\ iocb[c].req.specs = WrittenGroups(args[c], 2)
  /\ \A g \in 1..Len(iocb[c].req.specs) : iocb[c].req.specs[g].refs # <<>>

\* a raw type code follows a property token that has no array index
CodeAfterBareProperty(a) ==
  \E i \in 2..Len(a) : isdigit(a[i]) /\ a[i] \in GroupTypes /\ ~isdigit(a[i - 1])

\* C20: for every command of an address and k >= 1 object groups (type as a
\* name or a raw code, instance, one or more properties each with or without
\* an array index) build_rpm_request gives a request with exactly k
\* read-access specifications in input order, each with its property
\* references in input order.
C20_OneSpecificationPerGroup ==
  \A c \in Callers :
     (op[c] = "readMultiple" /\ args[c] \in GroupCommands) => BuildsWrittenGroups(c)

\* C20 for the commands where no raw type code follows a bare property
C20_UnambiguousCommands ==
  \A c \in Callers :
     (op[c] = "readMultiple" /\ args[c] \in GroupCommands
      /\ ~CodeAfterBareProperty(args[c])) => BuildsWrittenGroups(c)

\* a command with two groups, the second opened by a raw type code after an
\* indexed property, was built
C20_TwoGroupsBuilt ==
  /\ op[1] = "readMultiple"
  /\ pc[1] = "wait"
  /\ Len(iocb[1].req.specs) = 2
  /\ iocb[1].req.specs[2].obj = "device"

====
